---- MODULE Spec2Model ----
(***************************************************************************)
(* Model of the Snake game of src/silver-rotary-phone/script.js: the       *)
(* SnakeGame class (reset, spawnFood, setDirection, togglePause, gameOver,  *)
(* updateHud, showOverlay, hideOverlay, tick), the DOM elements it writes,  *)
(* the persisted high score, the input handlers and the loop.                *)
(*                                                                         *)
(* Spec follows the page from its load: the input handlers, the loop        *)
(* statement by statement, and the clock.  SpecLong, SpecLoop and SpecFull  *)
(* do the same from games in progress; SpecQuiet is a game left alone,      *)
(* under the fairness of the clock and of the loop.                         *)
(*                                                                         *)
(* Positions and directions are records with the fields of the source.     *)
(* The snake is a sequence; snake[1] is the source's this.snake[0].         *)
(* JavaScript strings that are converted to or from numbers are sequences   *)
(* of one-character strings; fixed labels are plain strings.                *)
(***************************************************************************)
EXTENDS Integers, Sequences, FiniteSets, TLC

VARIABLES
    snake,              \* this.snake
    food,               \* this.food
    score,              \* this.score
    bestScore,          \* this.bestScore, a JS number
    isPaused,           \* this.isPaused
    isGameOver,         \* this.isGameOver
    speedIntervalMs,    \* this.speedIntervalMs
    speedMultiplier,    \* this.speedMultiplier
    pendingDirection,   \* this.pendingDirection
    currentDirection,   \* this.currentDirection
    lastTickAt,         \* this.lastTickAt
    accumulator,        \* this.accumulator
    now,                \* the clock read by performance.now()
    storage,            \* localStorage entry "snake-high-score": [present, value]
    hud,                \* textContent of scoreEl, bestEl, speedEl, btnPause
    overlay,            \* overlay.hidden, overlayTitle and overlaySubtitle text
    ticks,              \* calls of tick() that ran past its early return, since the start
    frame,              \* the call of loop(now) in progress: its position, its local
                        \* `interval`, and what it has done so far
    resumed             \* the last Paused -> Running togglePause: when, and the accumulator then

gameVars == <<snake, food, score, bestScore, isPaused, isGameOver, speedIntervalMs,
              speedMultiplier, pendingDirection, currentDirection>>
timeVars == <<lastTickAt, accumulator, now>>
domVars == <<hud, overlay>>
loopVars == <<frame, resumed>>
vars == <<gameVars, timeVars, domVars, storage, ticks, loopVars>>

----------------------------------------------------------------------------
(* Configuration, script.js lines 5-11 and 181.                            *)
GRID_COLUMNS == 21
GRID_ROWS == 21
INITIAL_SNAKE_LENGTH == 4
BASE_SPEED_MS == 120
SPEEDUP_EVERY_POINTS == 5
\* SPEEDUP_PERCENT = 0.92, kept as hundredths
SPEEDUP_PERCENT == 92
MAX_SPEED_MULTIPLIER == 3
\* the literal 45 of Math.max(45, ...)
MIN_SPEED_MS == 45

(* Bounds of the model.                                                    *)
\* the last reading, in ms, of the clock
MaxClock == 2645
\* the time, in ms, the clock runs for after the page loads
PageClock == 805
\* the time, in ms, the clock runs for from a game in progress
LongClock == 230
\* the time, in ms, the clock runs for when the loop is followed from a game in progress
LoopClock == 460
\* the highest score of the games in progress that SpecLong starts from
MaxStartScore == 64
\* the most cells left empty by the snakes that SpecFull starts from
NearFull == 3
\* the highest score of the games in progress that SpecLoop starts from
MaxLoopStartScore == 4
\* the highest score of the games in progress that SpecQuiet starts from
MaxQuietStartScore == 18

----------------------------------------------------------------------------
(* JavaScript values.                                                      *)
(* A number is NaN, an infinity (inf is 1 or -1), or the decimal v / 10^e.  *)
(* An integer below 10^MaxDigits is held with e = 0; any other number has a *)
(* v that is not a multiple of 10, and its e is negative when the number is *)
(* a larger integer (1e300 is v = 1, e = -300).  The numbers held are       *)
(* doubles of the program: a decimal of at most MaxDigits significant       *)
(* digits in the range of the normal doubles is the shortest decimal that   *)
(* reads back as its double, which is how the program compares and prints   *)
(* it.  A literal outside (more digits, or a value in the subnormal range   *)
(* above the least double) has no value here: Beyond stops the evaluation   *)
(* instead of answering.                                                    *)
(* -0 is written 0: the program compares and prints the two alike.          *)
Num(n) == [nan |-> FALSE, inf |-> 0, v |-> n, e |-> 0]
NaN == [nan |-> TRUE, inf |-> 0, v |-> 0, e |-> 0]
Infinity(sign) == [nan |-> FALSE, inf |-> sign, v |-> 0, e |-> 0]

\* the significant digits of a number that the integers of the checker hold
MaxDigits == 9
\* the bits of a 0x, 0o or 0b literal that they hold
MaxBits == 29

\* the value of a literal that the numbers above do not hold: undefined
Beyond(lit) == CHOOSE x \in {} : x = lit

RECURSIVE Pow10(_)
Pow10(k) == IF k = 0 THEN 1 ELSE 10 * Pow10(k - 1)

Least(S) == CHOOSE i \in S : \A j \in S : i <= j
Greatest(S) == CHOOSE i \in S : \A j \in S : i >= j

Digit(d) == CASE d = 0 -> "0" [] d = 1 -> "1" [] d = 2 -> "2" [] d = 3 -> "3"
              [] d = 4 -> "4" [] d = 5 -> "5" [] d = 6 -> "6" [] d = 7 -> "7"
              [] d = 8 -> "8" [] d = 9 -> "9"

RECURSIVE NatToString(_)
NatToString(n) == IF n < 10 THEN <<Digit(n)>>
                  ELSE NatToString(n \div 10) \o <<Digit(n % 10)>>

Zeros(k) == [i \in 1..k |-> "0"]

IsDigit(c) == c \in {"0", "1", "2", "3", "4", "5", "6", "7", "8", "9"}
\* the value of a digit of a hexadecimal, octal, binary or decimal literal
DigitValue(c) == CASE c = "0" -> 0 [] c = "1" -> 1 [] c = "2" -> 2 [] c = "3" -> 3
                   [] c = "4" -> 4 [] c = "5" -> 5 [] c = "6" -> 6 [] c = "7" -> 7
                   [] c = "8" -> 8 [] c = "9" -> 9
                   [] c \in {"a", "A"} -> 10 [] c \in {"b", "B"} -> 11
                   [] c \in {"c", "C"} -> 12 [] c \in {"d", "D"} -> 13
                   [] c \in {"e", "E"} -> 14 [] c \in {"f", "F"} -> 15
IsHexDigit(c) == IsDigit(c) \/ c \in {"a", "b", "c", "d", "e", "f",
                                      "A", "B", "C", "D", "E", "F"}

\* StrWhiteSpaceChar: the white space and line terminators of ECMAScript that a
\* string of this notation can hold: tab, line feed, vertical tab, form feed,
\* carriage return, space, no-break space, ogham space mark, byte order mark
\* (U+2000 to U+200A, U+2028, U+2029, U+202F, U+205F and U+3000 cannot be written)
IsSpace(c) == c \in {" ", "\t", "\n", "\f", "\r", "", " ", " ", "﻿"}

TrimLeft(s) ==
    LET kept == {i \in 1..Len(s) : ~IsSpace(s[i])} IN
    IF kept = {} THEN <<>> ELSE SubSeq(s, Least(kept), Len(s))
TrimRight(s) ==
    LET kept == {i \in 1..Len(s) : ~IsSpace(s[i])} IN
    IF kept = {} THEN <<>> ELSE SubSeq(s, 1, Greatest(kept))

\* the value of the digits s in the given base, after the digits worth acc
RECURSIVE DigitsValue(_, _, _)
DigitsValue(s, base, acc) ==
    IF s = <<>> THEN acc
    ELSE DigitsValue(Tail(s), base, acc * base + DigitValue(Head(s)))
AllDigits(s) == \A i \in 1..Len(s) : IsDigit(s[i])

\* the place of the first character of s that is in cs, 0 when there is none
IndexOf(s, cs) ==
    LET at == {i \in 1..Len(s) : s[i] \in cs} IN
    IF at = {} THEN 0 ELSE CHOOSE i \in at : \A j \in at : i <= j

\* the digits s without their leading zeros, without their trailing zeros
StripLeadingZeros(s) ==
    LET kept == {i \in 1..Len(s) : s[i] # "0"} IN
    IF kept = {} THEN <<>> ELSE SubSeq(s, Least(kept), Len(s))
StripTrailingZeros(s) ==
    LET kept == {i \in 1..Len(s) : s[i] # "0"} IN
    IF kept = {} THEN <<>> ELSE SubSeq(s, 1, Greatest(kept))

\* 0.a < 0.b for the digits a and b read as decimal fractions
DigitsLess(a, b) ==
    LET at(s, i) == IF i <= Len(s) THEN DigitValue(s[i]) ELSE 0
        longest == IF Len(a) > Len(b) THEN Len(a) ELSE Len(b)
        differ == {i \in 1..longest : at(a, i) # at(b, i)}
    IN differ # {} /\ at(a, Least(differ)) < at(b, Least(differ))

\* the digits of a finite number and the place n of its decimal point: the
\* number is 0.digits * 10^n in size
Digits(a) == NatToString(IF a.v < 0 THEN 0 - a.v ELSE a.v)
Place(a) == Len(Digits(a)) - a.e
Sign(a) == IF a.v > 0 THEN 1 ELSE IF a.v < 0 THEN -1 ELSE 0

\* a > b in size, for finite numbers other than 0
LargerThan(a, b) ==
    \/ Place(a) > Place(b)
    \/ Place(a) = Place(b) /\ DigitsLess(Digits(b), Digits(a))

\* a > b on JS numbers: false as soon as one side is NaN
JsGreater(a, b) ==
    /\ ~a.nan /\ ~b.nan
    /\ IF a.inf # 0 \/ b.inf # 0 THEN a.inf > b.inf
       ELSE IF Sign(a) # Sign(b) THEN Sign(a) > Sign(b)
       ELSE IF Sign(a) = 0 THEN FALSE
       ELSE IF Sign(a) = 1 THEN LargerThan(a, b)
       ELSE LargerThan(b, a)

\* Number::toString of the positive number 0.d * 10^n, d its k significant
\* digits: the digits and zeros up to the point (n <= 21), the digits around
\* the point, "0." and zeros before the digits (n > -6), or the exponent form
\* with the exponent n - 1
PositiveToString(d, n) ==
    LET k == Len(d) IN
    IF k <= n /\ n <= 21 THEN d \o Zeros(n - k)
    ELSE IF 0 < n /\ n <= 21 THEN SubSeq(d, 1, n) \o <<".">> \o SubSeq(d, n + 1, k)
    ELSE IF -6 < n /\ n <= 0 THEN <<"0", ".">> \o Zeros(0 - n) \o d
    ELSE <<d[1]>> \o (IF k > 1 THEN <<".">> \o Tail(d) ELSE <<>>)
         \o (IF n > 0 THEN <<"e", "+">> \o NatToString(n - 1)
             ELSE <<"e", "-">> \o NatToString(1 - n))

\* String(a)
String(a) == IF a.nan THEN <<"N", "a", "N">>
             ELSE IF a.inf = 1 THEN <<"I", "n", "f", "i", "n", "i", "t", "y">>
             ELSE IF a.inf = -1 THEN <<"-", "I", "n", "f", "i", "n", "i", "t", "y">>
             ELSE IF a.v = 0 THEN <<"0">>
             ELSE (IF a.v < 0 THEN <<"-">> ELSE <<>>)
                  \o PositiveToString(StripTrailingZeros(Digits(a)), Place(a))

\* the number sign * 0.d * 10^n, d its significant digits
Finite(sign, d, n) ==
    LET m == DigitsValue(d, 10, 0) IN
    IF Len(d) <= n /\ n <= MaxDigits THEN Num(sign * m * Pow10(n - Len(d)))
    ELSE [nan |-> FALSE, inf |-> 0, v |-> sign * m, e |-> Len(d) - n]

\* NonDecimalIntegerLiteral: 0x, 0o or 0b (either case) and digits of that base
IsNonDecimalLiteral(t) ==
    /\ Len(t) >= 3 /\ t[1] = "0"
    /\ \/ t[2] \in {"x", "X"} /\ \A i \in 3..Len(t) : IsHexDigit(t[i])
       \/ t[2] \in {"o", "O"} /\ \A i \in 3..Len(t) : IsDigit(t[i]) /\ DigitValue(t[i]) < 8
       \/ t[2] \in {"b", "B"} /\ \A i \in 3..Len(t) : t[i] \in {"0", "1"}
\* the value of a 0x, 0o or 0b literal
NonDecimalValue(t) ==
    LET base == IF t[2] \in {"x", "X"} THEN 16 ELSE IF t[2] \in {"o", "O"} THEN 8 ELSE 2
        bits == IF base = 16 THEN 4 ELSE IF base = 8 THEN 3 ELSE 1
        d == StripLeadingZeros(SubSeq(t, 3, Len(t)))
    IN IF Len(d) * bits > MaxBits THEN Beyond(t) ELSE Num(DigitsValue(d, base, 0))

\* the parts of an unsigned decimal literal u: the digits before and after the
\* point, whether it has a point, the sign and digits of its exponent part
DecimalParts(u) ==
    LET ePos == IndexOf(u, {"e", "E"})
        mant == IF ePos = 0 THEN u ELSE SubSeq(u, 1, ePos - 1)
        expo == IF ePos = 0 THEN <<>> ELSE SubSeq(u, ePos + 1, Len(u))
        signed == expo # <<>> /\ Head(expo) \in {"+", "-"}
        dot == IndexOf(mant, {"."})
    IN [int |-> IF dot = 0 THEN mant ELSE SubSeq(mant, 1, dot - 1),
        frac |-> IF dot = 0 THEN <<>> ELSE SubSeq(mant, dot + 1, Len(mant)),
        hasExp |-> ePos # 0,
        expNeg |-> signed /\ Head(expo) = "-",
        expDigits |-> IF signed THEN Tail(expo) ELSE expo]

\* StrUnsignedDecimalLiteral other than Infinity: digits, with a point before,
\* after or among them, and an optional exponent part with digits of its own
IsDecimalLiteral(u) ==
    LET p == DecimalParts(u) IN
    /\ AllDigits(p.int) /\ AllDigits(p.frac)
    /\ p.int # <<>> \/ p.frac # <<>>
    /\ p.hasExp => (p.expDigits # <<>> /\ AllDigits(p.expDigits))

\* The edges of the doubles, as the place of the decimal point and the first
\* digits of the edge (each edge has further digits after these that are not
\* all zero, so a literal of fewer digits is never equal to an edge):
\* 2^1024 - 2^970 = 0.17976931348623158079...e309, half way between the largest
\* double and 2^1024: a literal of that size or more is Infinity;
\* 2^-1075 = 0.24703282292062327208...e-323, half the least double: a literal
\* of that size or less is 0;
\* 3 * 2^-1075 = 0.74109846876186981626...e-323, half way between the least
\* double and the next: a literal between the last edge and this one is the
\* least double, 2^-1074, which prints as 5e-324;
\* 2^-1022 = 0.22250738585072013830...e-307, the least normal double: the
\* doubles below it are subnormal.
MaxDoublePlace == 309
MaxDoubleDigits == <<"1", "7", "9", "7", "6", "9", "3", "1", "3", "4", "8", "6",
                     "2", "3", "1", "5", "8">>
MinDoublePlace == -323
MinDoubleDigits == <<"2", "4", "7", "0", "3", "2", "8", "2", "2", "9", "2", "0",
                     "6", "2", "3", "2", "7">>
LeastDoubleDigits == <<"7", "4", "1", "0", "9", "8", "4", "6", "8", "7", "6", "1",
                       "8", "6", "9", "8", "1">>
LeastDouble == <<"5">>
MinNormalPlace == -307
MinNormalDigits == <<"2", "2", "2", "5", "0", "7", "3", "8", "5", "8", "5", "0",
                     "7", "2", "0", "1", "3">>

\* 0.d * 10^n is at or above the edge 0.digits... * 10^place, for d of at most
\* MaxDigits digits
AtOrAbove(d, n, digits, place) == n > place \/ (n = place /\ DigitsLess(digits, d))

\* sign times the value of the decimal literal u, with d its significant
\* digits and n the place of its decimal point
DecimalValue(sign, u) ==
    LET p == DecimalParts(u)
        all == p.int \o p.frac
        kept == {i \in 1..Len(all) : all[i] # "0"}
        d == SubSeq(all, Least(kept), Greatest(kept))
        xs == StripLeadingZeros(p.expDigits)
        x == DigitsValue(xs, 10, 0)
        n == Len(p.int) - (Least(kept) - 1) + (IF p.expNeg THEN 0 - x ELSE x)
    IN IF kept = {} THEN Num(0)
       ELSE IF Len(xs) > MaxDigits THEN (IF p.expNeg THEN Num(0) ELSE Infinity(sign))
       ELSE IF n > MaxDoublePlace THEN Infinity(sign)
       ELSE IF n < MinDoublePlace THEN Num(0)
       ELSE IF Len(d) > MaxDigits THEN Beyond(u)
       ELSE IF AtOrAbove(d, n, MaxDoubleDigits, MaxDoublePlace) THEN Infinity(sign)
       ELSE IF ~AtOrAbove(d, n, MinDoubleDigits, MinDoublePlace) THEN Num(0)
       ELSE IF ~AtOrAbove(d, n, LeastDoubleDigits, MinDoublePlace)
            THEN Finite(sign, LeastDouble, MinDoublePlace)
       ELSE IF ~AtOrAbove(d, n, MinNormalDigits, MinNormalPlace) THEN Beyond(u)
       ELSE Finite(sign, d, n)

InfinityLiteral == <<"I", "n", "f", "i", "n", "i", "t", "y">>

\* Number(str) on a string (StringToNumber of ECMAScript): surrounding white
\* space is dropped; the empty string is 0; a 0x, 0o or 0b literal is its value;
\* an optionally signed decimal literal or Infinity is its value; anything else
\* is NaN
StringToNumber(str) ==
    LET t == TrimRight(TrimLeft(str))
        signed == t # <<>> /\ Head(t) \in {"+", "-"}
        sign == IF signed /\ Head(t) = "-" THEN -1 ELSE 1
        u == IF signed THEN Tail(t) ELSE t
    IN IF t = <<>> THEN Num(0)
       ELSE IF IsNonDecimalLiteral(t) THEN NonDecimalValue(t)
       ELSE IF u = InfinityLiteral THEN Infinity(sign)
       ELSE IF IsDecimalLiteral(u) THEN DecimalValue(sign, u)
       ELSE NaN

\* localStorage.getItem: null when the entry is absent
NoItem == [present |-> FALSE, value |-> <<>>]
Item(str) == [present |-> TRUE, value |-> str]

\* Number(localStorage.getItem("snake-high-score") || 0): null and "" are falsy
ReadBestScore(item) ==
    IF ~item.present \/ item.value = <<>> THEN Num(0) ELSE StringToNumber(item.value)

\* what the store may hold when the page loads
StoredAtStartup == {NoItem, Item(<<"2">>), Item(<<"a", "b", "c">>)}

----------------------------------------------------------------------------
(* Grid and direction helpers, script.js lines 57-66.                      *)
Pos(px, py) == [x |-> px, y |-> py]
posEquals(a, b) == a.x = b.x /\ a.y = b.y

Up == [x |-> 0, y |-> -1, name |-> "up"]
Down == [x |-> 0, y |-> 1, name |-> "down"]
Left == [x |-> -1, y |-> 0, name |-> "left"]
Right == [x |-> 1, y |-> 0, name |-> "right"]
Directions == {Up, Down, Left, Right}
\* Directions[capitalize(dirName)] of a d-pad button with an unknown data-dir
Undefined == [x |-> 0, y |-> 0, name |-> "undefined"]
DirectionInputs == Directions \cup {Undefined}

isOpposite(a, b) == a.x + b.x = 0 /\ a.y + b.y = 0

----------------------------------------------------------------------------
(* reset: the snake it lays out, script.js lines 82-87.                    *)
startX == GRID_COLUMNS \div 3
startY == GRID_ROWS \div 2

\* for (i = INITIAL_SNAKE_LENGTH - 1; i >= 0; i--) push({x: startX - i, y: startY}):
\* the k-th pushed element has i = INITIAL_SNAKE_LENGTH - k
InitialSnake == [k \in 1..INITIAL_SNAKE_LENGTH |->
                    Pos(startX - (INITIAL_SNAKE_LENGTH - k), startY)]

----------------------------------------------------------------------------
(* spawnFood, script.js lines 95-105.                                       *)
\* all cells in the order of the two nested loops: y outer, x inner
spaces == [k \in 1..(GRID_COLUMNS * GRID_ROWS) |->
              Pos((k - 1) % GRID_COLUMNS, (k - 1) \div GRID_COLUMNS)]

OnSnake(snk, p) == \E i \in 1..Len(snk) : posEquals(snk[i], p)

\* mutant of emptySpaces: the cells of the snake are not filtered out
emptySpaces_Unfiltered(snk) == spaces

emptySpaces(snk) == SelectSeq(spaces, LAMBDA p : ~OnSnake(snk, p))

\* Math.random() returns a number in [0, 1); the model writes it as a fraction
\* <<numerator, denominator>>.  The values the model draws: the least one, the
\* middle one, one next to 1, and 0.4438, which puts the food of a fresh game
\* on the cell above snake[0] and the next two foods beside the cell just
\* eaten, so that games that eat are within reach of a bounded run.
RandomDraws == {<<0, 1>>, <<4438, 10000>>, <<1, 2>>, <<9999, 10000>>}

\* randomInt(n) when Math.random() returns r: Math.floor(r * n), script.js line 55
randomInt(r, n) == (r[1] * n) \div r[2]

\* spawnFood() for the snake snk when Math.random() returns r
spawnFood(snk, r) ==
    LET empty == emptySpaces(snk) IN
    IF Len(empty) > 0 THEN empty[randomInt(r, Len(empty)) + 1] ELSE Pos(0, 0)

\* spawnFood() as reset calls it, on the snake reset has just laid out: the
\* cells it returns for the draws of the model
spawnFoodAtReset == {spawnFood(InitialSnake, r) : r \in RandomDraws}

----------------------------------------------------------------------------
(* updateHud, showOverlay, hideOverlay, script.js lines 135-148.           *)
Min(a, b) == IF a < b THEN a ELSE b
Max(a, b) == IF a > b THEN a ELSE b

\* Math.min(MAX_SPEED_MULTIPLIER, BASE_SPEED_MS / ms).toFixed(2) in hundredths:
\* the nearest hundredth, a tie going up
SpeedHundredths(ms) ==
    Min(MAX_SPEED_MULTIPLIER * 100, (2 * BASE_SPEED_MS * 100 + ms) \div (2 * ms))

\* `${speedX}x`
SpeedText(ms) ==
    LET h == SpeedHundredths(ms) IN
    NatToString(h \div 100) \o <<".", Digit((h \div 10) % 10), Digit(h % 10), "x">>

\* the four texts updateHud writes, from the fields it reads
updateHud(sc, best, ms, paused) ==
    [score |-> String(Num(sc)),
     best |-> String(best),
     speed |-> SpeedText(ms),
     pause |-> IF paused THEN "Resume" ELSE "Pause"]

showOverlay(title, subtitle) == [hidden |-> FALSE, title |-> title, subtitle |-> subtitle]

\* mutant of hideOverlay: the overlay is left as it is
hideOverlay_LeavesShown(ov) == ov

hideOverlay(ov) == [ov EXCEPT !.hidden = TRUE]

\* overlay texts of the page before the script writes them (the markup is not
\* part of the source)
MarkupOverlay == [hidden |-> FALSE, title |-> "", subtitle |-> ""]

----------------------------------------------------------------------------
(* The methods of SnakeGame as relations between the fields before and     *)
(* after the call.                                                         *)

\* reset(), script.js lines 74-93
reset ==
    /\ score' = 0
    /\ isPaused' = FALSE
    /\ isGameOver' = FALSE
    /\ speedIntervalMs' = BASE_SPEED_MS
    /\ speedMultiplier' = 1
    /\ pendingDirection' = Right
    /\ currentDirection' = Right
    /\ snake' = InitialSnake
    /\ food' \in spawnFoodAtReset
    /\ lastTickAt' = now
    /\ accumulator' = 0
    /\ hud' = updateHud(0, bestScore, BASE_SPEED_MS, FALSE)
    /\ overlay' = hideOverlay(overlay)
    /\ UNCHANGED <<bestScore, storage>>

\* mutant of setDirectionAccepts: the `if (!dir) return` line is missing
setDirectionAccepts_NoNullTest(dir, cur) == ~isOpposite(dir, cur)

\* mutant of setDirectionAccepts: the reversal test is missing
setDirectionAccepts_NoReversalTest(dir, cur) == dir # Undefined

\* setDirection(dir): the test that lets dir through, script.js lines 108-109
setDirectionAccepts(dir, cur) == dir # Undefined /\ ~isOpposite(dir, cur)

\* setDirection(dir), script.js lines 107-111
setDirection(dir) ==
    /\ pendingDirection' = IF setDirectionAccepts(dir, currentDirection)
                           THEN dir ELSE pendingDirection
    /\ UNCHANGED <<snake, food, score, bestScore, isPaused, isGameOver, speedIntervalMs,
                   speedMultiplier, currentDirection, lastTickAt, accumulator,
                   storage, hud, overlay>>

\* mutant of togglePauseReturnsEarly: the isGameOver test is missing
togglePauseReturnsEarly_Never == FALSE

\* togglePause(): the early return, script.js line 114
togglePauseReturnsEarly == isGameOver

\* mutant of lastTickAtAfterResume: the resync line is missing
lastTickAtAfterResume_NoResync(last, t) == last

\* togglePause(): lastTickAt after a resume at time t, script.js line 120
lastTickAtAfterResume(last, t) == t

\* togglePause(), script.js lines 113-123
togglePause ==
    IF togglePauseReturnsEarly
    THEN UNCHANGED <<gameVars, lastTickAt, accumulator, storage, hud, overlay>>
    ELSE /\ isPaused' = ~isPaused
         /\ IF isPaused'
            THEN /\ overlay' = showOverlay("Paused", "Press Space or tap Resume")
                 /\ UNCHANGED lastTickAt
            ELSE /\ overlay' = hideOverlay(overlay)
                 /\ lastTickAt' = lastTickAtAfterResume(lastTickAt, now)
         /\ hud' = updateHud(score, bestScore, speedIntervalMs, isPaused')
         /\ UNCHANGED <<snake, food, score, bestScore, isGameOver, speedIntervalMs,
                        speedMultiplier, pendingDirection, currentDirection,
                        accumulator, storage>>

\* mutant of newBestScore: the score is recorded without comparing
newBestScore_NoCompare(sc, best) == Num(sc)

\* gameOver(): the best score it leaves, script.js lines 127-130
newBestScore(sc, best) == IF JsGreater(Num(sc), best) THEN Num(sc) ELSE best

\* mutant of storedAfterGameOver: the entry is written at every game over
storedAfterGameOver_Always(sc, best, stored) == Item(String(Num(sc)))

\* gameOver(): the stored entry it leaves, script.js lines 127-130:
\* setItem("snake-high-score", String(this.bestScore)) inside the if
storedAfterGameOver(sc, best, stored) ==
    IF JsGreater(Num(sc), best) THEN Item(String(newBestScore(sc, best))) ELSE stored

\* gameOver(), script.js lines 125-133
gameOver ==
    /\ isGameOver' = TRUE
    /\ bestScore' = newBestScore(score, bestScore)
    /\ storage' = storedAfterGameOver(score, bestScore, storage)
    /\ overlay' = showOverlay("Game Over", "Press R to restart or tap Restart")
    /\ hud' = updateHud(score, bestScore', speedIntervalMs, isPaused)

\* tick(): the cell the head moves to, script.js lines 154-157
nextHeadOf(snk, dir) == Pos(snk[1].x + dir.x, snk[1].y + dir.y)

\* mutant of hitsWall: the test of the bottom edge is missing
hitsWall_NoBottomEdge(p) == p.x < 0 \/ p.x >= GRID_COLUMNS \/ p.y < 0

\* mutant of hitsWall: the test of the left edge is missing
hitsWall_NoLeftEdge(p) == p.x >= GRID_COLUMNS \/ p.y < 0 \/ p.y >= GRID_ROWS

\* tick(): the wall test, script.js line 160
hitsWall(p) == p.x < 0 \/ p.x >= GRID_COLUMNS \/ p.y < 0 \/ p.y >= GRID_ROWS

\* mutant of hitsSelf: the loop finds no segment
hitsSelf_Never(snk, p) == FALSE

\* mutant of hitsSelf: the loop stops before the tail, as if the tail had moved away
hitsSelf_SkipsTail(snk, p) == \E i \in 0..(Len(snk) - 2) : posEquals(snk[i + 1], p)

\* tick(): the self-collision loop, script.js lines 166-171
hitsSelf(snk, p) == \E i \in 0..(Len(snk) - 1) : posEquals(snk[i + 1], p)

\* mutant of speedUp: the Math.max(45, ...) floor is missing
speedUp_NoFloor(ms) == (ms * SPEEDUP_PERCENT) \div 100

\* tick(): the interval after a speed-up, script.js line 181
\* (Math.floor(ms * 0.92) is (ms * 92) \div 100 for the integers ms takes)
speedUp(ms) == Max(MIN_SPEED_MS, (ms * SPEEDUP_PERCENT) \div 100)

\* tick(): the interval after eating brought the score to sc, lines 180-182
intervalAfterEating(sc, ms) == IF sc % SPEEDUP_EVERY_POINTS = 0 THEN speedUp(ms) ELSE ms

\* mutant of scoreAfterMove: every move scores
scoreAfterMove_EveryMove(sc, ateFood) == sc + 1

\* tick(): the score after a move, script.js lines 177-179
scoreAfterMove(sc, ateFood) == IF ateFood THEN sc + 1 ELSE sc

\* mutant of snakeAfterMove: the tail is never popped
snakeAfterMove_NeverPop(snk, nextHead, ateFood) == <<nextHead>> \o snk

\* mutant of snakeAfterMove: the tail is popped on every move
snakeAfterMove_AlwaysPop(snk, nextHead, ateFood) == SubSeq(<<nextHead>> \o snk, 1, Len(snk))

\* tick(): the snake after a move, script.js lines 174 and 184-186:
\* unshift(nextHead), then pop() unless the food was eaten
snakeAfterMove(snk, nextHead, ateFood) ==
    IF ateFood THEN <<nextHead>> \o snk
    ELSE SubSeq(<<nextHead>> \o snk, 1, Len(snk))

\* mutant of tickReturnsEarly: the isPaused test is missing
tickReturnsEarly_IgnoresPause == isGameOver

\* tick(): the early return, script.js line 151
tickReturnsEarly == isPaused \/ isGameOver

\* tick(), script.js lines 150-189
tick ==
    IF tickReturnsEarly
    THEN UNCHANGED <<gameVars, lastTickAt, accumulator, storage, hud, overlay>>
    ELSE LET nextHead == nextHeadOf(snake, pendingDirection) IN
         /\ currentDirection' = pendingDirection
         /\ IF hitsWall(nextHead) \/ hitsSelf(snake, nextHead)
            THEN /\ gameOver
                 /\ UNCHANGED <<snake, food, score, speedIntervalMs>>
            ELSE /\ snake' = snakeAfterMove(snake, nextHead, posEquals(nextHead, food))
                 /\ score' = scoreAfterMove(score, posEquals(nextHead, food))
                 /\ IF posEquals(nextHead, food)
                    THEN /\ speedIntervalMs' = intervalAfterEating(score', speedIntervalMs)
                         /\ \E r \in RandomDraws : food' = spawnFood(<<nextHead>> \o snake, r)
                    ELSE UNCHANGED <<food, speedIntervalMs>>
                 /\ hud' = updateHud(score', bestScore, speedIntervalMs', isPaused)
                 /\ UNCHANGED <<bestScore, isGameOver, storage, overlay>>
         /\ UNCHANGED <<isPaused, speedMultiplier, pendingDirection, lastTickAt, accumulator>>

----------------------------------------------------------------------------
(* The state machine: the page after `new SnakeGame()` and the first        *)
(* requestAnimationFrame(loop), then the calls of the input handlers, the   *)
(* calls of loop, statement by statement, and the clock.                    *)
(* The page is single-threaded: an input handler runs only between two      *)
(* calls of loop, never inside one.  frame.pc is the position in loop:      *)
(* "idle" between calls, "while" at the test of the while loop, "tick" at   *)
(* the call of game.tick().  frame.subtracted, called, ran and rendered     *)
(* count what the call in progress has done: subtractions of interval,      *)
(* calls of tick(), calls of tick() that ran past its early return, calls   *)
(* of render().                                                             *)

\* no call of loop is in progress (requestAnimationFrame holds the next one)
IdleFrame == [pc |-> "idle", interval |-> 0, subtracted |-> 0, called |-> 0,
              ran |-> 0, rendered |-> 0]
\* togglePause has not resumed the game since the last frame ended
NoResume == [pending |-> FALSE, at |-> 0, residue |-> 0]
LoopAtRest == frame = IdleFrame /\ resumed = NoResume

\* performance.now() counts from the start of the navigation, so the script
\* finds the clock at some positive reading; a specification whose clock is to
\* run for `run` ms starts at the reading StartedAt(run)
StartedAt(run) == MaxClock - run

\* constructor, script.js lines 69-72, run at time t on a page whose store
\* holds any of StoredAtStartup: bestScore is read, then reset() runs; line 311
\* asks for the first frame
PageLoaded(t) ==
    /\ storage \in StoredAtStartup
    /\ bestScore = ReadBestScore(storage)
    /\ score = 0
    /\ isPaused = FALSE
    /\ isGameOver = FALSE
    /\ speedIntervalMs = BASE_SPEED_MS
    /\ speedMultiplier = 1
    /\ pendingDirection = Right
    /\ currentDirection = Right
    /\ snake = InitialSnake
    /\ food \in spawnFoodAtReset
    /\ now = t
    /\ lastTickAt = now
    /\ accumulator = 0
    /\ hud = updateHud(0, bestScore, BASE_SPEED_MS, FALSE)
    /\ overlay = hideOverlay(MarkupOverlay)
    /\ ticks = 0
    /\ LoopAtRest

Init == PageLoaded(StartedAt(PageClock))

\* the clock advances by d ms between two events of the page; delays add up,
\* so frames come 0, 115, 230, ... ms after the previous event
Delays == {115}
Elapse(d) ==
    /\ frame.pc = "idle"
    /\ now + d <= MaxClock
    /\ now' = now + d
    /\ UNCHANGED <<gameVars, lastTickAt, accumulator, domVars, storage, ticks, loopVars>>

\* KeyR, the Restart buttons: game.reset(), script.js lines 271-274 and 290-291
Reset ==
    /\ frame.pc = "idle"
    /\ reset
    /\ UNCHANGED <<now, ticks, loopVars>>

\* a direction key or d-pad button: game.setDirection(dir), lines 260-265, 278-287
SetDirection(dir) ==
    /\ frame.pc = "idle"
    /\ setDirection(dir)
    /\ UNCHANGED <<now, ticks, loopVars>>

\* Space, the Pause and Resume buttons: game.togglePause(), lines 266-270, 292-293;
\* a call that resumes the game is recorded in `resumed`
TogglePause ==
    /\ frame.pc = "idle"
    /\ togglePause
    /\ resumed' = IF ~togglePauseReturnsEarly /\ ~isPaused'
                  THEN [pending |-> TRUE, at |-> now, residue |-> accumulator]
                  ELSE resumed
    /\ UNCHANGED <<now, ticks, frame>>

\* loop(now) up to the while loop, lines 299-303
LoopBegin ==
    /\ frame.pc = "idle"
    /\ LET dt == now - lastTickAt IN
       /\ lastTickAt' = now
       /\ accumulator' = accumulator + dt
    /\ frame' = [pc |-> "while", interval |-> speedIntervalMs, subtracted |-> 0,
                 called |-> 0, ran |-> 0, rendered |-> 0]
    /\ UNCHANGED <<gameVars, now, domVars, storage, ticks, resumed>>

\* the while test holds: game.accumulator -= interval, lines 304-305
LoopSubtract ==
    /\ frame.pc = "while"
    /\ accumulator >= frame.interval
    /\ accumulator' = accumulator - frame.interval
    /\ frame' = [frame EXCEPT !.pc = "tick", !.subtracted = @ + 1]
    /\ UNCHANGED <<gameVars, lastTickAt, now, domVars, storage, ticks, resumed>>

\* game.tick() inside the while loop, line 306
Tick ==
    /\ frame.pc = "tick"
    /\ tick
    /\ ticks' = IF tickReturnsEarly THEN ticks ELSE ticks + 1
    /\ frame' = [frame EXCEPT !.pc = "while", !.called = @ + 1,
                              !.ran = IF tickReturnsEarly THEN @ ELSE @ + 1]
    /\ UNCHANGED <<now, resumed>>

\* the while test fails: game.render() and requestAnimationFrame(loop),
\* lines 308-309; render only reads the game.  The record of the last resume
\* is dropped: it is kept for the first frame that ends after it.
LoopRender ==
    /\ frame.pc = "while"
    /\ ~(accumulator >= frame.interval)
    /\ frame' = [IdleFrame EXCEPT !.rendered = frame.rendered + 1]
    /\ resumed' = NoResume
    /\ UNCHANGED <<gameVars, timeVars, domVars, storage, ticks>>

Next ==
    \/ \E d \in Delays : Elapse(d)
    \/ Reset
    \/ \E dir \in DirectionInputs : SetDirection(dir)
    \/ TogglePause
    \/ LoopBegin
    \/ LoopSubtract
    \/ Tick
    \/ LoopRender

Spec == Init /\ [][Next]_vars

----------------------------------------------------------------------------
(* Games in progress.  Scores beyond a handful are out of reach of a run   *)
(* of PageClock ms from the page load, so SpecLong starts from a game      *)
(* that has already scored: the snake lies along the boustrophedon path    *)
(* from the corner (0,0), a shape the snake takes after following that     *)
(* path for as many ticks as it is long, the food is on the next cell of   *)
(* the path, and the interval is the one the eaten food has left.          *)

\* the k-th cell (from 0) of the path: row 0 left to right, row 1 right to left, ...
pathCell(k) ==
    LET row == k \div GRID_COLUMNS
        col == k % GRID_COLUMNS
    IN Pos(IF row % 2 = 0 THEN col ELSE GRID_COLUMNS - 1 - col, row)

\* the snake of length len on the first len cells of the path, head first
snakeOnPath(len) == [i \in 1..len |-> pathCell(len - i)]

\* the direction that leads from cell a to the adjacent cell b
directionBetween(a, b) == CHOOSE d \in Directions : b.x = a.x + d.x /\ b.y = a.y + d.y

\* ms after k more speed-ups of tick; once a speed-up leaves ms as it is (the
\* floor), the remaining ones do too
RECURSIVE speedUpTimes(_, _)
speedUpTimes(ms, k) ==
    IF k = 0 \/ speedUp(ms) = ms THEN ms ELSE speedUpTimes(speedUp(ms), k - 1)

\* speedIntervalMs after k speed-ups: reset's BASE_SPEED_MS, then tick's update
intervalAfterSpeedUps(k) == speedUpTimes(BASE_SPEED_MS, k)

\* speedIntervalMs after sc foods eaten since reset: tick speeds up at each
\* score that is a multiple of SPEEDUP_EVERY_POINTS
intervalAtScore(sc) == intervalAfterSpeedUps(sc \div SPEEDUP_EVERY_POINTS)

\* the game in progress with score sc at time t, at the end of a frame that
\* left nothing in the accumulator, on a page that found the entry `stored`
\* when it loaded
InProgress(sc, stored, t) ==
    LET len == INITIAL_SNAKE_LENGTH + sc IN
    /\ storage = stored
    /\ bestScore = ReadBestScore(storage)
    /\ score = sc
    /\ isPaused = FALSE
    /\ isGameOver = FALSE
    /\ speedIntervalMs = intervalAtScore(sc)
    /\ speedMultiplier = 1
    /\ snake = snakeOnPath(len)
    /\ currentDirection = directionBetween(pathCell(len - 2), pathCell(len - 1))
    /\ pendingDirection = directionBetween(pathCell(len - 1), pathCell(len))
    /\ food = pathCell(len)
    /\ now = t
    /\ lastTickAt = now
    /\ accumulator = 0
    /\ hud = updateHud(sc, bestScore, speedIntervalMs, FALSE)
    /\ overlay = hideOverlay(MarkupOverlay)
    /\ ticks = 0
    /\ LoopAtRest

InitLong ==
    \E sc \in 0..MaxStartScore, stored \in StoredAtStartup :
       InProgress(sc, stored, StartedAt(LongClock))

SpecLong == InitLong /\ [][Next]_vars

\* the games in progress, with scores up to MaxLoopStartScore, that the loop
\* is followed from for LoopClock ms (the loop does not read the stored entry:
\* the page found none)
InitLoop ==
    \E sc \in 0..MaxLoopStartScore : InProgress(sc, NoItem, StartedAt(LoopClock))

SpecLoop == InitLoop /\ [][Next]_vars

----------------------------------------------------------------------------
(* Games about to fill the grid.  SpecFull starts from the games in         *)
(* progress whose snake, on the same path, leaves at most NearFull cells    *)
(* empty: the last cell of the path is the corner (20,20).                  *)

\* the score of a snake that covers the grid
FullScore == GRID_COLUMNS * GRID_ROWS - INITIAL_SNAKE_LENGTH

InitFull ==
    \E sc \in (FullScore - NearFull)..(FullScore - 1), stored \in StoredAtStartup :
       InProgress(sc, stored, StartedAt(LongClock))

SpecFull == InitFull /\ [][Next]_vars

----------------------------------------------------------------------------
(* A game left alone.  SpecQuiet starts from a running game, fresh or in    *)
(* progress; direction inputs may arrive until the first tick, none after   *)
(* it, and no pause or reset.  The page stays in front: frames come many    *)
(* times between two readings of the clock of the model, so the clock moves *)
(* on only after a frame has run at its present reading.  The clock never   *)
(* stops and each frame asks for the next one (line 309), hence the         *)
(* fairness of the clock and of the steps of loop.                          *)

\* the clock advances after a frame has read it
QuietElapse(d) == lastTickAt = now /\ Elapse(d)

\* the direction inputs that precede the quiet run
LastDirection(dir) == ticks = 0 /\ SetDirection(dir)

NextQuiet ==
    \/ \E d \in Delays : QuietElapse(d)
    \/ \E dir \in DirectionInputs : LastDirection(dir)
    \/ LoopBegin
    \/ LoopSubtract
    \/ Tick
    \/ LoopRender

InitQuiet ==
    \/ PageLoaded(0)
    \/ \E sc \in 0..MaxQuietStartScore : InProgress(sc, NoItem, 0)

\* the steps that advance the clock are the QuietElapse steps
ClockRuns ==
    \E d \in Delays :
       frame.pc = "idle" /\ lastTickAt = now /\ now + d <= MaxClock /\ now' = now + d

\* the steps that change `frame` on a page without pause are the steps of loop:
\* LoopBegin, LoopSubtract, Tick and LoopRender
FrameRuns ==
    \/ /\ frame.pc = "idle"
       /\ frame' = [pc |-> "while", interval |-> speedIntervalMs, subtracted |-> 0,
                    called |-> 0, ran |-> 0, rendered |-> 0]
    \/ /\ frame.pc = "while" /\ accumulator >= frame.interval
       /\ frame' = [frame EXCEPT !.pc = "tick", !.subtracted = @ + 1]
    \/ /\ frame.pc = "tick"
       /\ frame' = [frame EXCEPT !.pc = "while", !.called = @ + 1,
                                 !.ran = IF tickReturnsEarly THEN @ ELSE @ + 1]
    \/ /\ frame.pc = "while" /\ ~(accumulator >= frame.interval)
       /\ frame' = [IdleFrame EXCEPT !.rendered = frame.rendered + 1]

SpecQuiet == InitQuiet /\ [][NextQuiet]_vars /\ SF_now(ClockRuns) /\ WF_frame(FrameRuns)

----------------------------------------------------------------------------
(* Properties.  The predicates below are written from the statements they  *)
(* check and use none of the helpers of the methods above.                 *)

\* d is the exact negation of e
Negates(d, e) == d.x = 0 - e.x /\ d.y = 0 - e.y

\* the state reset() leaves, before any direction input: a running game with
\* score 0 and a 4-segment snake on cells 4..7 of the middle row, heading Right
FreshGame ==
    /\ score = 0 /\ ~isPaused /\ ~isGameOver
    /\ Len(snake) = 4
    /\ \A i \in 1..4 : snake[i].y = 10 /\ snake[i].x \in 4..7
    /\ pendingDirection = Right /\ currentDirection = Right

\* this step is a tick() that ran past its early return: the only step that
\* advances the count of such ticks
TickRan == ticks' = ticks + 1

\* this step is a tick() that moved the snake onto the food cell
AteFood == TickRan /\ ~isGameOver' /\ snake'[1] = food

\* this step is a call of setDirection
SetDirectionCalled == \E dir \in DirectionInputs : SetDirection(dir)

\* the cell head + pendingDirection a running tick looks at
AheadCell == Pos(snake[1].x + pendingDirection.x, snake[1].y + pendingDirection.y)

\* that cell is outside the grid or on a segment of the snake
AheadIsFatal ==
    \/ AheadCell.x < 0 \/ AheadCell.x > 20 \/ AheadCell.y < 0 \/ AheadCell.y > 20
    \/ \E i \in 1..Len(snake) : snake[i] = AheadCell

\* C1: after startup or reset the snake is stored head first and heads Right, and
\* a tick taken before any direction input moves it one cell to the right (its
\* length stays 4 unless the food was on that cell) and leaves the game running.
C1_FirstTickMovesRight ==
    [][(FreshGame /\ ticks' # ticks /\ Tick) =>
          /\ ~isGameOver'
          /\ snake'[1] = Pos(snake[1].x + 1, snake[1].y)
          /\ Len(snake') = IF snake'[1] = food THEN 5 ELSE 4]_vars

\* C2: setDirection(d) leaves pendingDirection as it was when d is null or the
\* exact negation of currentDirection, sets it to d for every other d, and
\* changes no other field.
C2_SetDirection ==
    [][\A dir \in DirectionInputs :
          SetDirection(dir) =>
             /\ pendingDirection' = IF dir = Undefined \/ Negates(dir, currentDirection)
                                    THEN pendingDirection ELSE dir
             /\ UNCHANGED <<snake, food, score, speedIntervalMs, currentDirection,
                            isPaused, isGameOver, bestScore, storage,
                            lastTickAt, accumulator>>]_vars

\* C2 witness: before any tick, with currentDirection still Right, setDirection(Up)
\* has made pendingDirection Up.
C2_Witness == ticks = 0 /\ currentDirection = Right /\ pendingDirection = Up

\* C3: pendingDirection is one of the four directions and is never the exact
\* negation of currentDirection, so a tick never commits the reverse of the
\* direction committed by the tick before it.
C3_NoStagedReversal ==
    /\ pendingDirection \in Directions
    /\ currentDirection \in Directions
    /\ ~Negates(pendingDirection, currentDirection)

\* C3 witness: after ticks and direction inputs, a turn is staged while paused.
C3_Witness ==
    /\ ticks >= 2 /\ isPaused
    /\ currentDirection = Up /\ pendingDirection = Left

\* C4: a tick leaves the snake one longer when the new head landed on the food
\* and as long as before otherwise (no-op and fatal ticks included).
C4_LengthAfterTick ==
    [][/\ AteFood => Len(snake') = Len(snake) + 1
       /\ (TickRan /\ ~AteFood) => Len(snake') = Len(snake)
       /\ ((isPaused \/ isGameOver) /\ Tick) => Len(snake') = Len(snake)
       /\ Len(snake') < Len(snake) => Reset]_vars

\* C4 witness: the snake has grown and has since moved without eating.
C4_Witness == Len(snake) = 6 /\ ticks = 4 /\ ~isGameOver

\* C5: a tick raises score by exactly 1 when the new head lands on the food and
\* leaves it otherwise; setDirection, togglePause and the game-over transition
\* never change it; only reset lowers it, to 0.
C5_ScoreSteps ==
    [][/\ AteFood => score' = score + 1
       /\ score' # score =>
            /\ AteFood \/ (Reset /\ score' = 0)
            /\ ~TogglePause /\ ~SetDirectionCalled
            /\ ~isGameOver'
       /\ score' = 0 \/ ~Reset]_vars

\* C5 witness: a game that scored has ended, and its score is still shown.
C5_Witness == isGameOver /\ score = 3

\* C6: bestScore never decreases, and reset puts every other field back to its
\* initial value while leaving bestScore as it was.
C6_BestScoreKept ==
    [][/\ ~JsGreater(bestScore, bestScore')
       /\ Reset =>
            /\ bestScore' = bestScore
            /\ score' = 0 /\ ~isPaused' /\ ~isGameOver'
            /\ speedIntervalMs' = 120
            /\ pendingDirection' = Right /\ currentDirection' = Right
            /\ Len(snake') = 4
            /\ \A i \in 1..4 : snake'[i].y = 10 /\ snake'[i].x \in 4..7
            /\ \A i \in 1..4 : snake'[i] # food']_vars

\* C6 witness: a new game runs after a game that raised the best score.
C6_Witness == bestScore = Num(3) /\ score = 0 /\ ~isGameOver /\ ticks >= 4

\* the interval after k speed-ups, as C7 states it: 120, then max(45, floor(0.92 x))
RECURSIVE C7_IntervalAfter(_)
C7_IntervalAfter(k) ==
    IF k = 0 THEN 120
    ELSE LET lower == (92 * C7_IntervalAfter(k - 1)) \div 100 IN
         IF lower < 45 THEN 45 ELSE lower

\* C7: speedIntervalMs is 120 after reset, never increases during a game and
\* never drops below 45; it changes only on a food-eating tick that brings score
\* to a multiple of 5, where it becomes max(45, floor(0.92 x previous)); so it is
\* the non-increasing function C7_IntervalAfter(score div 5) of score.
C7_SpeedSteps ==
    [][/\ speedIntervalMs' >= 45
       /\ speedIntervalMs' = C7_IntervalAfter(score' \div 5)
       /\ speedIntervalMs' = 120 \/ ~Reset
       /\ speedIntervalMs' > speedIntervalMs => Reset
       /\ speedIntervalMs' # speedIntervalMs =>
            \/ Reset
            \/ /\ AteFood /\ score' % 5 = 0
               /\ speedIntervalMs' =
                     (IF (92 * speedIntervalMs) \div 100 < 45
                      THEN 45 ELSE (92 * speedIntervalMs) \div 100)
       /\ (AteFood /\ score' % 5 = 0 /\ speedIntervalMs > 48) =>
            speedIntervalMs' < speedIntervalMs]_vars

\* C7 witness: the food that brought the score to 65 was eaten at the floor: the
\* interval stayed 45.
C7_Witness == score = 65 /\ speedIntervalMs = 45 /\ Len(snake) = 69 /\ ~isGameOver

\* C8: while the game is paused or over, tick() leaves every game field as it
\* was; a direction staged while paused stays staged.
C8_TickIsNoOp ==
    [][((isPaused \/ isGameOver) /\ Tick) =>
          UNCHANGED <<snake, food, score, speedIntervalMs, currentDirection,
                      pendingDirection, bestScore, isPaused, isGameOver, storage>>]_vars

\* C8 witness: a paused game in which a turn was staged after some ticks.
C8_Witness ==
    /\ isPaused /\ ticks >= 1 /\ score >= 1
    /\ pendingDirection # currentDirection

\* C9: a tick of a running game whose next head cell is outside the grid or on
\* any segment (the tail included) ends the game and leaves snake, food, score
\* and speedIntervalMs as they were; bestScore becomes score when score is
\* greater and stays otherwise.
C9_FatalTick ==
    [][(~isPaused /\ ~isGameOver /\ AheadIsFatal /\ Tick) =>
          /\ isGameOver'
          /\ UNCHANGED <<snake, food, score, speedIntervalMs>>
          /\ bestScore' = IF ~bestScore.nan /\ score > bestScore.v
                          THEN Num(score) ELSE bestScore]_vars

\* C9 witness: the snake ran into the left wall with a score above the best
\* score, which the game over recorded.
C9_Witness ==
    /\ isGameOver /\ snake[1].x = 0 /\ currentDirection = Left
    /\ score = 1 /\ bestScore = Num(1)

\* C10: gameOver is set only by a running tick whose next head cell is fatal and
\* cleared only by reset; togglePause on a finished game changes nothing, and the
\* game is never both over and paused.
C10_GameOverIsTerminal ==
    [][/\ (~isGameOver /\ isGameOver') => (~isPaused /\ AheadIsFatal /\ Tick)
       /\ (isGameOver /\ ~isGameOver') => Reset
       /\ (isGameOver /\ TogglePause) => UNCHANGED <<gameVars, storage, hud, overlay>>
       /\ ~(isGameOver' /\ isPaused')]_vars

\* C10 witness: the game is over, and a direction was staged after it ended.
C10_Witness ==
    /\ isGameOver /\ ~isPaused /\ ticks >= 2
    /\ pendingDirection # currentDirection

\* C11: in every state, the one left by the tick that ends the game included,
\* the snake has at least 4 segments, every segment is a cell of the grid, and
\* no two segments are on the same cell.
C11_SnakeWellFormed ==
    /\ Len(snake) >= 4
    /\ \A i \in 1..Len(snake) :
          /\ 0 <= snake[i].x /\ snake[i].x < 21
          /\ 0 <= snake[i].y /\ snake[i].y < 21
    /\ \A i, j \in 1..Len(snake) : i # j => snake[i] # snake[j]

\* C11 witness: a snake that has grown lies along the left edge, and the tick
\* that would have taken it through the edge has ended the game.
C11_Witness ==
    /\ isGameOver /\ Len(snake) >= 5
    /\ snake[1].x = 0 /\ currentDirection = Left

\* C13: bestScore is a non-negative integer whatever the store held at startup:
\* it is 0 as long as the entry is absent or holds a non-numeric string, and a game
\* that ended with a higher score has recorded it.
C13_BestScoreUsable ==
    /\ ~bestScore.nan /\ bestScore.inf = 0 /\ bestScore.e = 0 /\ bestScore.v >= 0
    /\ (~storage.present \/ storage.value = <<"a", "b", "c">>) => bestScore = Num(0)
    /\ isGameOver => bestScore.v >= score

\* the stored entry reads as the number bestScore, or is absent with bestScore
\* still 0
C14_StoredIsBest ==
    IF storage.present THEN StringToNumber(storage.value) = bestScore
    ELSE bestScore = Num(0)

\* C14: the stored entry changes only in the tick that ends a game whose score
\* is above bestScore, and becomes the decimal string of that score, the new
\* bestScore; reset, setDirection, togglePause and ticks that leave the game
\* running never change it; so when startup read a number (or no entry) the
\* entry, once present, reads as bestScore (in the state each step starts from:
\* every reachable state has a step that leaves it).
C14_StorageWrites ==
    [][/\ storage' # storage =>
            /\ TickRan /\ ~isGameOver /\ isGameOver'
            /\ ~bestScore.nan /\ score > bestScore.v
            /\ bestScore' = Num(score)
            /\ storage' = Item(String(Num(score)))
       /\ (Reset \/ SetDirectionCalled \/ TogglePause) => storage' = storage
       /\ (TickRan /\ ~isGameOver') => storage' = storage
       /\ ~bestScore.nan => C14_StoredIsBest]_vars

\* C14 witness: a game over wrote "3" over the stored "2", and a new game runs.
C14_Witness ==
    /\ storage = Item(<<"3">>) /\ bestScore = Num(3)
    /\ ~isGameOver /\ score = 1

\* C15: the overlay is shown exactly when the game is paused or over, its title
\* is "Paused" when paused and "Game Over" when over, and the pause button reads
\* "Resume" exactly when the game is paused.
C15_OverlayFollowsState ==
    /\ overlay.hidden <=> ~(isPaused \/ isGameOver)
    /\ isPaused => overlay.title = "Paused"
    /\ isGameOver => overlay.title = "Game Over"
    /\ (hud.pause = "Resume") <=> isPaused
    /\ hud.pause \in {"Resume", "Pause"}

\* C15 witness: a game that was paused and resumed runs with the overlay hidden
\* (its title still the one the pause wrote).
C15_Witness ==
    /\ ~isPaused /\ ~isGameOver /\ ticks >= 2
    /\ overlay.hidden /\ overlay.title = "Paused" /\ hud.pause = "Pause"

\* C18: in every state score is the length of the snake minus the initial
\* length 4.
C18_ScoreIsGrowth == score = Len(snake) - 4

\* C18 witness: three foods eaten, seven segments, and the game goes on.
C18_Witness == score = 3 /\ Len(snake) = 7 /\ ~isGameOver /\ ~isPaused

\* the food is on a cell of the grid that no segment of the snake is on
FoodOnEmptyCell ==
    /\ 0 <= food.x /\ food.x < 21 /\ 0 <= food.y /\ food.y < 21
    /\ \A i \in 1..Len(snake) : snake[i] # food

\* the snake is on every cell of the grid
GridFull == Len(snake) = 441

\* C12 as stated: after every food spawn, at reset and after each eaten food,
\* and in every later state until it is eaten, the food is on a cell of the grid
\* that the snake is not on; the food moves only when it is eaten or on reset,
\* and an eaten food relocates.
C12_FoodAlwaysOnEmptyCell ==
    [][/\ FoodOnEmptyCell
       /\ FoodOnEmptyCell'
       /\ food' # food => (AteFood \/ Reset)
       /\ AteFood => food' # food]_vars

\* C12 amended: the same as long as the snake leaves a cell empty; the spawn
\* after the food that fills the grid puts the food on the corner (0,0), under
\* the snake, where it stays.
C12_FoodOnEmptyCellUnlessFull ==
    [][/\ IF GridFull THEN food = Pos(0, 0) ELSE FoodOnEmptyCell
       /\ IF GridFull' THEN food' = Pos(0, 0) ELSE FoodOnEmptyCell'
       /\ food' # food => (AteFood \/ Reset)
       /\ (AteFood /\ ~GridFull') => food' # food]_vars

\* C12 witness: the last empty cell was eaten; the food is on the corner (0,0),
\* where the tail of the snake is, and the game is still running.
C12_Witness ==
    /\ GridFull /\ ~isGameOver
    /\ food = Pos(0, 0) /\ snake[441] = Pos(0, 0)

\* C19: the tick that fills the grid leaves the food on (0,0), a cell of the
\* snake; every tick that runs on a full grid ends the game, moving nothing and
\* eating nothing; score never exceeds 21 x 21 - 4 = 437.
C19_FullGridEndsGame ==
    [][/\ (AteFood /\ GridFull') =>
            /\ food' = Pos(0, 0)
            /\ \E i \in 1..Len(snake') : snake'[i] = Pos(0, 0)
       /\ (GridFull /\ TickRan) =>
            /\ isGameOver'
            /\ UNCHANGED <<snake, food, score>>
       /\ score <= 437 /\ score' <= 437]_vars

\* C19 witness: the game on the full grid has ended with score 437, whatever
\* direction was staged.
C19_Witness ==
    /\ GridFull /\ isGameOver /\ score = 437
    /\ food = Pos(0, 0) /\ currentDirection = Up

\* this step begins a call of loop, takes one turn of its while loop, ends it
FrameBegins == frame.pc = "idle" /\ frame'.pc = "while"
FrameSubtracts == frame.pc = "while" /\ frame'.pc = "tick"
FrameEnds == frame.pc = "while" /\ frame'.pc = "idle"

\* C16: a frame adds the time since the previous frame to the accumulator; as
\* long as the accumulator is at least the game's current speedIntervalMs it
\* subtracts that interval and calls tick once; then it renders once; so when
\* the frame ends the accumulator is below the game's speedIntervalMs, also
\* when a tick of the frame has lowered it.
C16_FrameCatchesUp ==
    [][/\ FrameBegins => accumulator' = accumulator + (now - lastTickAt)
       /\ FrameSubtracts =>
            /\ accumulator >= speedIntervalMs
            /\ accumulator' = accumulator - speedIntervalMs
       /\ FrameEnds =>
            /\ frame.called = frame.subtracted
            /\ frame.rendered = 0 /\ frame'.rendered = 1
            /\ accumulator' < speedIntervalMs']_vars

\* C17: in the first frame that ends after a Paused -> Running togglePause, the
\* ticks that ran past the early return are at most floor((r + t) / interval):
\* r the accumulator at the resume, t the time from the resume to the frame,
\* interval the frame's interval; however long the pause was and however many
\* frames ran during it.
C17_NoCatchUpAfterPause ==
    [][(FrameEnds /\ resumed.pending) =>
          frame.ran <= (resumed.residue + (now - resumed.at)) \div frame.interval]_vars

\* C17 witness: a frame ran during the pause and drained the accumulator to 110
\* with a tick that returned early; the frame 115 ms after the resume has run the
\* one tick that 110 + 115 ms allow, the only one of the game so far.
C17_Witness ==
    /\ frame.pc = "while" /\ accumulator < frame.interval
    /\ resumed.pending /\ resumed.residue = 110 /\ now - resumed.at = 115
    /\ frame.ran = 1 /\ ticks = 1

\* C20: a running game that gets no input from some tick on, while the loop
\* keeps ticking, reaches game over, and the tick that ends it is at the latest
\* the 21st: a snake that moves straight runs into a wall or into itself.
C20_QuietGameEnds ==
    /\ <>isGameOver
    /\ [](ticks <= 21)
    /\ [](ticks = 21 => isGameOver)

\* C20 witness: the snake has crossed the whole grid from the right edge and
\* the 21st tick has ended the game at the left edge.
C20_Witness ==
    /\ isGameOver /\ ticks = 21
    /\ snake[1].x = 0 /\ currentDirection = Left

====
